---------------------------- MODULE Spec2Model ----------------------------
(***************************************************************************)
(* A model of diceware's passphrase generation (diceware/__init__.py and   *)
(* diceware/random_sources.py).                                            *)
(*                                                                         *)
(* A Python 3 string is modelled as a sequence of characters, a character  *)
(* as a one-character TLA+ string.  get_passphrase is modelled statement   *)
(* by statement (pc names the statement to run next), every call of        *)
(* rnd.choice being a step of its own that is logged in `trace`, the       *)
(* sequence of calls the random source has seen.                           *)
(***************************************************************************)
EXTENDS Integers, Sequences, FiniteSets, TLC

(***************************************************************************)
(* Bounds of the model.                                                    *)
(***************************************************************************)
\* options.num ranges over 0..MaxNum
MaxNum == 3
\* options.specials ranges over 0..MaxSpecials
MaxSpecials == 2
\* a run is configured to make at most MaxCalls calls of choice
\* (num + 2 * specials)
MaxCalls == 6
\* the entropy one call of choice consumes is a number in 0..RandRange-1
RandRange == 3
\* get_wordlist_path is called with strings of at most MaxLangLen characters
MaxLangLen == 3

(***************************************************************************)
(* Characters and the str methods the program uses.                        *)
(***************************************************************************)
None == "None"

\* No file, where a file (a sequence of lines) is expected
NoFile == << << None >> >>

\* No string yet, where a string is expected
NoString == << >>

ascii_lowercase ==
    << "a", "b", "c", "d", "e", "f", "g", "h", "i", "j", "k", "l", "m",
       "n", "o", "p", "q", "r", "s", "t", "u", "v", "w", "x", "y", "z" >>

ascii_uppercase ==
    << "A", "B", "C", "D", "E", "F", "G", "H", "I", "J", "K", "L", "M",
       "N", "O", "P", "Q", "R", "S", "T", "U", "V", "W", "X", "Y", "Z" >>

\* The characters of a string
Chars(s) == { s[i] : i \in 1..Len(s) }

Position(seq, c) == CHOOSE i \in 1..Len(seq) : seq[i] = c

\* [a-zA-Z]
IsAsciiLetter(c) == c \in Chars(ascii_lowercase) \cup Chars(ascii_uppercase)

\* str.lower() of one character.  Of the characters of the model only the
\* ASCII upper-case letters change.
LowerChar(c) ==
    IF c \in Chars(ascii_uppercase)
    THEN ascii_lowercase[Position(ascii_uppercase, c)]
    ELSE c

\* str.upper() of one ASCII character.
UpperChar(c) ==
    IF c \in Chars(ascii_lowercase)
    THEN ascii_uppercase[Position(ascii_lowercase, c)]
    ELSE c

\* str.lower() of a string
lower(s) == [i \in 1..Len(s) |-> LowerChar(s[i])]

\* The title-case form of one character, a string: the sharp s has a
\* two-character form (Python 3, unicode strings), every ASCII letter its
\* upper-case letter.
TitleChar(c) == IF c = "ß" THEN << "S", "s" >> ELSE << UpperChar(c) >>

\* The claimed form: the first character upper-cased, the rest kept as is.
capitalize_keeping_rest(x) ==
    IF x = << >> THEN << >> ELSE TitleChar(x[1]) \o Tail(x)

\* Every character upper-cased.
capitalize_as_upper(x) == [i \in 1..Len(x) |-> UpperChar(x[i])]

\* str.capitalize(): the first character in title case, the rest lower-cased
capitalize(x) ==
    IF x = << >> THEN << >> ELSE TitleChar(x[1]) \o lower(Tail(x))

\* Whitespace as str.strip() sees it
IsSpace(c) == c \in { " ", "\n", "\t" }

RECURSIVE lstrip(_)
lstrip(s) ==
    IF s # << >> /\ IsSpace(s[1]) THEN lstrip(Tail(s)) ELSE s

RECURSIVE rstrip(_)
rstrip(s) ==
    IF s # << >> /\ IsSpace(s[Len(s)])
    THEN rstrip(SubSeq(s, 1, Len(s) - 1))
    ELSE s

\* str.strip()
strip(s) == rstrip(lstrip(s))

\* The joined words in reverse order.
RECURSIVE join_reversed(_, _)
join_reversed(delimiter, ws) ==
    IF ws = << >> THEN << >>
    ELSE IF Len(ws) = 1 THEN ws[1]
    ELSE join_reversed(delimiter, Tail(ws)) \o delimiter \o ws[1]

\* delimiter.join(ws)
RECURSIVE join(_, _)
join(delimiter, ws) ==
    IF ws = << >> THEN << >>
    ELSE IF Len(ws) = 1 THEN ws[1]
    ELSE ws[1] \o delimiter \o join(delimiter, Tail(ws))

\* range(n)
range(n) == [i \in 1..n |-> i - 1]

(***************************************************************************)
(* Module constants of diceware/__init__.py.                               *)
(***************************************************************************)
\* The directory of the built-in wordlists, and the path separator
WORDLISTS_DIR == << "wordlists" >>

SPECIAL_CHARS ==
    << "~", "!", "#", "$", "%", "^", "&", "*", "(", ")", "-", "=", "+",
       "[", "]", "\\", "{", "}", ":", ";", "\"", "'", "<", ">", "?", "/",
       "0", "1", "2", "3", "4", "5", "6", "7", "8", "9" >>

\* RE_LANG_CODE.match(lang) for the pattern ^[a-zA-Z]{2}$ : two letters
\* from the start, and then `$`, which (the pattern is compiled without
\* flags) matches at the end of the string and also just before a line
\* break that ends the string.
RE_LANG_CODE_match(lang) ==
    /\ Len(lang) >= 2
    /\ IsAsciiLetter(lang[1])
    /\ IsAsciiLetter(lang[2])
    /\ \/ Len(lang) = 2
       \/ Len(lang) = 3 /\ lang[3] = "\n"

\* The entry points of the group diceware_random_sources: name -> class
get_random_sources == [name \in { "system" } |-> "SystemRandomSource"]

(***************************************************************************)
(* The pure functions of the program.                                      *)
(***************************************************************************)
\* get_wordlist: the stripped lines of the file that are not empty
RECURSIVE get_wordlist(_)
get_wordlist(file_descriptor) ==
    IF file_descriptor = << >> THEN << >>
    ELSE IF strip(file_descriptor[1]) # << >>
    THEN << strip(file_descriptor[1]) >> \o get_wordlist(Tail(file_descriptor))
    ELSE get_wordlist(Tail(file_descriptor))

\* get_wordlist_path past its check of the code
wordlist_basename(lang) ==
    << "w", "o", "r", "d", "l", "i", "s", "t", "_" >> \o lang
        \o << ".", "t", "x", "t" >>

get_wordlist_path(lang) == WORDLISTS_DIR \o << "/" >> \o lower(wordlist_basename(lang))

\* The index SystemRandom.choice takes of a sequence of n > 0 items: any
\* index below n.  The model draws as many indices as the entropy r of the
\* call has values, spread over the sequence: that of int(r / RandRange * n)
choice_index(n, r) == (r * n) \div RandRange

\* SystemRandomSource.choice of a non-empty sequence
choice(sequence, r) == sequence[choice_index(Len(sequence), r) + 1]

\* The special character put in front of the word.
replace_char_prepend(char_list, index, char) == << char >> \o char_list

\* The special character written next to the chosen position.
replace_char_shifted(char_list, index, char) ==
    [char_list EXCEPT ![((index + 1) % Len(char_list)) + 1] = char]

\* char_list[index] = char (index counts from 0), and the ''.join of it
replace_char(char_list, index, char) == [char_list EXCEPT ![index + 1] = char]

(***************************************************************************)
(* The state.                                                              *)
(***************************************************************************)
VARIABLES
    options,    \* the options get_passphrase was called with
    pc,         \* the statement to run next
    word_list,  \* get_passphrase's word_list
    rnd,        \* the random source constructed, or None
    words,      \* get_passphrase's words
    result,     \* get_passphrase's result; what it returned once pc = "done"
    passes,     \* the passes of the loop over range(options.specials) done
    special,    \* insert_special_char: the value of rnd.choice(specials)
    trace,      \* the calls of rnd.choice so far, in order: the argument
                \* (its name in the source and its value) and the item
                \* returned, or the exception raised
    error,      \* the exception raised, or None
    lang,       \* get_wordlist_path's argument
    path        \* what get_wordlist_path returned

vars == << options, pc, word_list, rnd, words, result, passes, special,
           trace, error, lang, path >>

(***************************************************************************)
(* The inputs.                                                             *)
(***************************************************************************)
\* The lines of wordlists/wordlist_en.txt, as file.readlines() gives them
EnWordlistFile ==
    << << "a", "l", "p", "h", "a", "\n" >>,
       << "b", "r", "a", "v", "o", "\n" >>,
       << "c", "h", "a", "r", "l", "i", "e", "\n" >> >>

\* The files a caller passes as options.infile
Infiles ==
    { << >>,
      << << " ", "\n" >>, << "\n" >> >>,
      << << "m", "D", "\n" >>, << "\n" >>, << " ", "U", "S", " ", "\n" >> >>,
      << << "ß", "a", "\n" >>, << "1", "-", "B" >> >> }

Delimiters == { << >>, << "-" >> }

RandomSourceNames == { "system", "myrandom" }

Options ==
    { o \in [ num : 0..MaxNum,
              capitalize : BOOLEAN,
              specials : 0..MaxSpecials,
              delimiter : Delimiters,
              randomsource : RandomSourceNames,
              infile : Infiles \cup { NoFile } ] :
        o.num + 2 * o.specials <= MaxCalls }

\* The entropy of one call of choice
Random == 0..(RandRange - 1)

Init ==
    /\ options \in Options
    /\ pc = "get_wordlist"
    /\ word_list = << >>
    /\ rnd = None
    /\ words = << >>
    /\ result = << >>
    /\ passes = 0
    /\ special = None
    /\ trace = << >>
    /\ error = None
    /\ lang = NoString
    /\ path = NoString

(***************************************************************************)
(* get_passphrase, statement by statement.                                 *)
(***************************************************************************)
\* Lines 191-193: the built-in wordlist is opened when no infile is given,
\* and the file is read.
GetWordlist ==
    /\ pc = "get_wordlist"
    /\ IF options.infile = NoFile
       THEN /\ lang' = << "e", "n" >>
            /\ path' = get_wordlist_path(lang')
            /\ options' = [options EXCEPT !.infile = EnWordlistFile]
       ELSE UNCHANGED << lang, path, options >>
    /\ word_list' = get_wordlist(options'.infile)
    /\ pc' = "get_random_sources"
    /\ UNCHANGED << rnd, words, result, passes, special, trace, error >>

\* Line 194, the name being registered
LookupRandomSource ==
    /\ pc = "get_random_sources"
    /\ options.randomsource \in DOMAIN get_random_sources
    /\ pc' = "rnd_source"
    /\ UNCHANGED << options, word_list, rnd, words, result, passes, special,
                    trace, error, lang, path >>

\* An unknown name goes unnoticed and the source is constructed all the same.
LookupRandomSourceSkipped ==
    /\ pc = "get_random_sources"
    /\ options.randomsource \notin DOMAIN get_random_sources
    /\ pc' = "rnd_source"
    /\ UNCHANGED << options, word_list, rnd, words, result, passes, special,
                    trace, error, lang, path >>

\* Line 194, the name not being registered: the subscript raises KeyError
LookupRandomSourceRaises ==
    /\ pc = "get_random_sources"
    /\ options.randomsource \notin DOMAIN get_random_sources
    /\ pc' = "raised"
    /\ error' = "KeyError"
    /\ UNCHANGED << options, word_list, rnd, words, result, passes, special,
                    trace, lang, path >>

\* Line 195: rnd = rnd_source(options)
ConstructRandomSource ==
    /\ pc = "rnd_source"
    /\ rnd' = get_random_sources[options.randomsource]
    /\ pc' = "words"
    /\ UNCHANGED << options, word_list, words, result, passes, special,
                    trace, error, lang, path >>

\* Line 196: one rnd.choice(word_list) of the list comprehension
ChooseWord ==
    /\ pc = "words"
    /\ Len(words) < options.num
    /\ word_list # << >>
    /\ \E r \in Random :
         /\ words' = Append(words, choice(word_list, r))
         /\ trace' = Append(trace, [arg |-> "word_list", sequence |-> word_list,
                                    item |-> choice(word_list, r)])
    /\ UNCHANGED << options, pc, word_list, rnd, result, passes, special,
                    error, lang, path >>

\* An empty word_list silently yields a fixed filler word.
ChooseWordFiller ==
    /\ pc = "words"
    /\ Len(words) < options.num
    /\ word_list = << >>
    /\ words' = Append(words, << "x" >>)
    /\ UNCHANGED << options, pc, word_list, rnd, result, passes, special,
                    trace, error, lang, path >>

\* Line 196: rnd.choice of an empty word_list raises IndexError
ChooseWordRaises ==
    /\ pc = "words"
    /\ Len(words) < options.num
    /\ word_list = << >>
    /\ trace' = Append(trace, [arg |-> "word_list", sequence |-> word_list,
                            raises |-> "IndexError"])
    /\ pc' = "raised"
    /\ error' = "IndexError"
    /\ UNCHANGED << options, word_list, rnd, words, result, passes, special,
                    lang, path >>

\* Lines 197-198, once the list comprehension is through
CapitalizeWords ==
    /\ pc = "words"
    /\ Len(words) >= options.num
    /\ words' = IF options.capitalize
                THEN [i \in 1..Len(words) |-> capitalize(words[i])]
                ELSE words
    /\ pc' = "join"
    /\ UNCHANGED << options, word_list, rnd, result, passes, special, trace,
                    error, lang, path >>

\* Line 199
JoinWords ==
    /\ pc = "join"
    /\ result' = join(options.delimiter, words)
    /\ pc' = "specials"
    /\ UNCHANGED << options, word_list, rnd, words, passes, special, trace,
                    error, lang, path >>

\* The subscript evaluated before the right-hand side: the index is chosen
\* first, the special character second.
InsertSpecialCharSubscriptFirst ==
    /\ pc = "specials"
    /\ passes < options.specials
    /\ result # << >>
    /\ \E r1 \in Random, r2 \in Random :
         /\ result' = [result EXCEPT
                          ![choice(range(Len(result)), r1) + 1] =
                              choice(SPECIAL_CHARS, r2)]
         /\ trace' = trace \o
                << [arg |-> "range", sequence |-> range(Len(result)),
                    item |-> choice(range(Len(result)), r1)],
                   [arg |-> "specials", sequence |-> SPECIAL_CHARS,
                    item |-> choice(SPECIAL_CHARS, r2)] >>
    /\ passes' = passes + 1
    /\ UNCHANGED << options, pc, word_list, rnd, words, special, error,
                    lang, path >>

\* Lines 200-201 and 165-168: a pass of the loop calls insert_special_char,
\* whose assignment evaluates its right-hand side first: rnd.choice(specials)
InsertSpecialCharChoice ==
    /\ pc = "specials"
    /\ passes < options.specials
    /\ \E r \in Random :
         /\ special' = choice(SPECIAL_CHARS, r)
         /\ trace' = Append(trace, [arg |-> "specials", sequence |-> SPECIAL_CHARS,
                                    item |-> choice(SPECIAL_CHARS, r)])
    /\ pc' = "insert_special_char"
    /\ UNCHANGED << options, word_list, rnd, words, result, passes, error,
                    lang, path >>

\* Lines 168-169 and 201: then the subscript rnd.choice(range(len(char_list))),
\* the assignment to char_list, and the joined list is the new result
InsertSpecialCharIndex ==
    /\ pc = "insert_special_char"
    /\ result # << >>
    /\ \E r \in Random :
         /\ result' = replace_char(result, choice(range(Len(result)), r), special)
         /\ trace' = Append(trace, [arg |-> "range", sequence |-> range(Len(result)),
                                    item |-> choice(range(Len(result)), r)])
    /\ passes' = passes + 1
    /\ special' = None
    /\ pc' = "specials"
    /\ UNCHANGED << options, word_list, rnd, words, error, lang, path >>

\* An empty word is guarded: the pass returns it as it is.
InsertSpecialCharIndexGuarded ==
    /\ pc = "insert_special_char"
    /\ result = << >>
    /\ passes' = passes + 1
    /\ special' = None
    /\ pc' = "specials"
    /\ UNCHANGED << options, word_list, rnd, words, result, trace, error,
                    lang, path >>

\* Line 168: rnd.choice of the empty range raises IndexError
InsertSpecialCharIndexRaises ==
    /\ pc = "insert_special_char"
    /\ result = << >>
    /\ trace' = Append(trace, [arg |-> "range", sequence |-> range(Len(result)),
                               raises |-> "IndexError"])
    /\ pc' = "raised"
    /\ error' = "IndexError"
    /\ UNCHANGED << options, word_list, rnd, words, result, passes, special,
                    lang, path >>

\* Line 202
Return ==
    /\ pc = "specials"
    /\ passes >= options.specials
    /\ pc' = "done"
    /\ UNCHANGED << options, word_list, rnd, words, result, passes, special,
                    trace, error, lang, path >>

Next ==
    \/ GetWordlist
    \/ LookupRandomSource
    \/ LookupRandomSourceRaises
    \/ ConstructRandomSource
    \/ ChooseWord
    \/ ChooseWordRaises
    \/ CapitalizeWords
    \/ JoinWords
    \/ InsertSpecialCharChoice
    \/ InsertSpecialCharIndex
    \/ InsertSpecialCharIndexRaises
    \/ Return

Spec == Init /\ [][Next]_vars

(***************************************************************************)
(* get_wordlist_path, called with any string.                              *)
(***************************************************************************)
LangChars == { "e", "N", "1", " ", "\n" }

RECURSIVE Strings(_, _)
Strings(chars, n) ==
    IF n = 0 THEN { << >> }
    ELSE Strings(chars, n - 1)
           \cup { Append(s, c) : s \in Strings(chars, n - 1), c \in chars }

InitPath ==
    /\ lang \in Strings(LangChars, MaxLangLen)
    /\ pc = "get_wordlist_path"
    /\ options = CHOOSE o \in Options : TRUE
    /\ word_list = << >>
    /\ rnd = None
    /\ words = << >>
    /\ result = << >>
    /\ passes = 0
    /\ special = None
    /\ trace = << >>
    /\ error = None
    /\ path = NoString

\* Lines 151 and 153-154: the code matches and the path is returned
GetWordlistPath ==
    /\ pc = "get_wordlist_path"
    /\ RE_LANG_CODE_match(lang)
    /\ path' = get_wordlist_path(lang)
    /\ pc' = "done"
    /\ UNCHANGED << options, word_list, rnd, words, result, passes, special,
                    trace, error, lang >>

\* Lines 151-152: the code does not match
GetWordlistPathRaises ==
    /\ pc = "get_wordlist_path"
    /\ ~ RE_LANG_CODE_match(lang)
    /\ error' = "ValueError"
    /\ pc' = "raised"
    /\ UNCHANGED << options, word_list, rnd, words, result, passes, special,
                    trace, lang, path >>

NextPath == GetWordlistPath \/ GetWordlistPathRaises

SpecPath == InitPath /\ [][NextPath]_vars

(***************************************************************************)
(* What the properties below speak of.                                     *)
(***************************************************************************)
\* The configured source is registered
Registered == options.randomsource \in DOMAIN get_random_sources

\* The wordlist has been read
WordlistRead == pc # "get_wordlist"

\* The run has chosen its words and capitalized them: `words` holds the
\* segments that are joined
WordsCapitalized ==
    \/ pc \in { "join", "specials", "insert_special_char", "done" }
    \/ pc = "raised" /\ special # None

\* The run has joined its words: `result` is the joined string, or what the
\* passes so far made of it
WordsJoined ==
    \/ pc \in { "specials", "insert_special_char", "done" }
    \/ pc = "raised" /\ special # None

\* The word the i-th call of choice returned
SelectedWord(i) == trace[i].item

\* Call i of choice returned an item
Returned(i) == "item" \in DOMAIN trace[i]

RECURSIVE SumLen(_)
SumLen(ws) == IF ws = << >> THEN 0 ELSE Len(ws[1]) + SumLen(Tail(ws))

IsTwoAsciiLetters(s) ==
    Len(s) = 2 /\ IsAsciiLetter(s[1]) /\ IsAsciiLetter(s[2])

(***************************************************************************)
(* C1                                                                      *)
(***************************************************************************)
\* C1 as claimed: with capitalize, the segment joined for a selected word w
\* is the upper-cased first character of w followed by the remaining
\* characters of w unchanged.
C1_RestUnchanged ==
    (WordsCapitalized /\ options.capitalize) =>
        \A i \in 1..Len(words) :
            LET w == SelectedWord(i) IN
            IsAsciiLetter(w[1]) =>
                /\ Len(words[i]) = Len(w)
                /\ words[i][1] = UpperChar(w[1])
                /\ \A k \in 2..Len(w) : words[i][k] = w[k]

\* C1 as amended: with capitalize, the segment joined for a selected word w
\* is the title-case form of the first character of w (the upper-case letter
\* of an ASCII letter, "Ss" for a sharp s, the character itself otherwise)
\* followed by the remaining characters of w lower-cased; without capitalize
\* it is w.
C1_RestLowerCased ==
    WordsCapitalized =>
        /\ Len(words) = options.num
        /\ \A i \in 1..Len(words) :
            LET w == SelectedWord(i)
                n == Len(TitleChar(w[1]))
            IN  IF options.capitalize
                THEN /\ Len(words[i]) = Len(w) + n - 1
                     /\ SubSeq(words[i], 1, n) = TitleChar(w[1])
                     /\ IsAsciiLetter(w[1]) => words[i][1] = UpperChar(w[1])
                     /\ \A k \in 2..Len(w) :
                            words[i][k + n - 1] = LowerChar(w[k])
                ELSE words[i] = w

\* A returned passphrase whose word "mD" was joined as "Md"
C1_Witness ==
    /\ pc = "done"
    /\ options.capitalize
    /\ \E i \in 1..Len(words) :
         /\ SelectedWord(i) = << "m", "D" >>
         /\ words[i] = << "M", "d" >>

(***************************************************************************)
(* C2                                                                      *)
(***************************************************************************)
\* C2 as claimed: a run whose wordlist is empty never returns a passphrase,
\* whatever num and specials are.
C2_EmptyWordlistNeverReturns ==
    (WordlistRead /\ word_list = << >>) => pc # "done"

\* C2 as amended: the wordlist is not validated.  A run whose wordlist is
\* empty and whose num is at least 1 never returns: it stops with an
\* exception, which is the IndexError of the first choice when the source is
\* registered, and no word was chosen before.  With num = 0 no word is
\* chosen, and the run returns the empty string when specials = 0 and stops
\* in its first special-character pass otherwise.
C2_EmptyWordlistRaisesAtFirstChoice ==
    (WordlistRead /\ word_list = << >>) =>
        /\ words = << >>
        /\ pc \notin { "done", "raised" } => ENABLED Next
        /\ options.num >= 1 =>
              /\ pc \in { "get_random_sources", "rnd_source", "words", "raised" }
              /\ (pc = "raised" /\ Registered) =>
                    /\ error = "IndexError"
                    /\ Len(trace) = 1
                    /\ trace[1].arg = "word_list"
                    /\ ~ Returned(1)
        /\ (options.num = 0 /\ pc = "done") =>
              options.specials = 0 /\ result = << >>
        /\ (options.num = 0 /\ options.specials >= 1) => pc # "done"

\* A run on an empty wordlist stopped by the IndexError of its first choice
C2_Witness ==
    /\ pc = "raised"
    /\ error = "IndexError"
    /\ word_list = << >>
    /\ options.num >= 1
    /\ Len(trace) = 1

(***************************************************************************)
(* C3                                                                      *)
(***************************************************************************)
\* C3: with a non-empty wordlist and num = 0, the run returns the empty
\* string without an exception if specials = 0, and if specials >= 1 its
\* first special-character pass raises on the empty string and nothing is
\* returned.  No pass on an empty string ever completes.
C3_EmptyInput ==
    /\ (WordlistRead /\ word_list # << >> /\ options.num = 0 /\ Registered) =>
          /\ pc \notin { "done", "raised" } => ENABLED Next
          /\ options.specials = 0 =>
                /\ pc # "raised"
                /\ error = None
                /\ pc = "done" => result = << >>
          /\ options.specials >= 1 =>
                /\ pc # "done"
                /\ pc = "raised" =>
                      /\ error = "IndexError"
                      /\ passes = 0
                      /\ result = << >>
    /\ (WordsJoined /\ result = << >>) => passes = 0
    /\ (pc = "insert_special_char" /\ result = << >>) =>
          ~ ENABLED InsertSpecialCharIndex

\* The first pass of a run with num = 0 raised on the empty string
C3_Witness ==
    /\ pc = "raised"
    /\ error = "IndexError"
    /\ word_list # << >>
    /\ options.num = 0
    /\ options.specials >= 1
    /\ result = << >>

(***************************************************************************)
(* C4                                                                      *)
(***************************************************************************)
WordlistChars == UNION { Chars(word_list[i]) : i \in 1..Len(word_list) }

\* C4 as claimed (here for the wordlists of ASCII letters): every character
\* of a returned passphrase is a character of a wordlist word, of the
\* delimiter, or of SPECIAL_CHARS.
C4_CharsFromWordlist ==
    (pc = "done" /\ \A c \in WordlistChars : IsAsciiLetter(c)) =>
        Chars(result) \subseteq
            WordlistChars \cup Chars(options.delimiter) \cup Chars(SPECIAL_CHARS)

\* The characters capitalization makes of the wordlist's characters: of a
\* first character its title-case form, of a later one its lower-case form
CapitalizedChars ==
    UNION { Chars(TitleChar(word_list[i][1]))
              \cup { LowerChar(word_list[i][k]) : k \in 2..Len(word_list[i]) } :
            i \in 1..Len(word_list) }

\* C4 as amended: every character of a returned passphrase is a character
\* of the delimiter or of SPECIAL_CHARS, or, without capitalize, a character
\* of a wordlist word, or, with capitalize, the title-case form of the first
\* character or the lower-case form of a later character of a wordlist word.
C4_CharsFromCapitalizedWordlist ==
    pc = "done" =>
        Chars(result) \subseteq
            (IF options.capitalize THEN CapitalizedChars ELSE WordlistChars)
                \cup Chars(options.delimiter) \cup Chars(SPECIAL_CHARS)

\* A returned passphrase of two capitalized words, a delimiter and special
\* characters that holds a character no wordlist word holds
C4_Witness ==
    /\ pc = "done"
    /\ options.capitalize
    /\ options.num >= 2
    /\ options.specials >= 1
    /\ options.delimiter # << >>
    /\ ~ (Chars(result) \subseteq
            WordlistChars \cup Chars(options.delimiter) \cup Chars(SPECIAL_CHARS))

(***************************************************************************)
(* C5                                                                      *)
(***************************************************************************)
\* The words the first n calls of choice returned
SelectedWords(n) == [i \in 1..n |-> SelectedWord(i)]

\* C5 as claimed: a returned passphrase of N selected words is as long as
\* the words together and N - 1 delimiters.
C5_LengthFormula ==
    pc = "done" =>
        Len(result) = SumLen(SelectedWords(options.num))
                        + Len(options.delimiter) * (options.num - 1)

\* The characters capitalization adds to the selected words: one for each
\* word that starts with a sharp s
Widened(n) ==
    IF options.capitalize
    THEN Cardinality({ i \in 1..n : Len(TitleChar(SelectedWord(i)[1])) = 2 })
    ELSE 0

\* C5 as amended: once the words are joined, and after every pass, the
\* string is empty if N = 0 and otherwise as long as the N selected words
\* together, one more character for each word capitalization widens, and
\* N - 1 delimiters.
C5_LengthPreserved ==
    WordsJoined =>
        Len(result) =
            IF options.num = 0 THEN 0
            ELSE SumLen(SelectedWords(options.num)) + Widened(options.num)
                   + Len(options.delimiter) * (options.num - 1)

\* A returned passphrase of two words and a delimiter after two passes
C5_Witness ==
    /\ pc = "done"
    /\ options.num = 2
    /\ options.delimiter # << >>
    /\ passes = 2
    /\ Len(result) = SumLen(SelectedWords(2)) + Len(options.delimiter)

(***************************************************************************)
(* C6                                                                      *)
(***************************************************************************)
\* The segment of the i-th selected word
Segment(i) ==
    IF options.capitalize THEN capitalize(SelectedWord(i)) ELSE SelectedWord(i)

\* Where the i-th segment starts in the joined string
RECURSIVE SegmentStart(_)
SegmentStart(i) ==
    IF i = 1 THEN 1
    ELSE SegmentStart(i - 1) + Len(Segment(i - 1)) + Len(options.delimiter)

Alpha == << "a", "l", "p", "h", "a" >>

\* C6: every word is chosen from the whole wordlist (with replacement), and
\* the joined string is made of num segments in the order of the calls: the
\* i-th is the (possibly capitalized) word the i-th call of choice returned,
\* a delimiter follows each but the last, and nothing follows the last.  So
\* num = 3, capitalize, "-" and a source that returns "alpha" each time give
\* "Alpha-Alpha-Alpha".
C6_SelectionOrder ==
    (WordsJoined /\ passes = 0 /\ pc # "insert_special_char" /\ pc # "raised") =>
        /\ Len(trace) >= options.num
        /\ \A i \in 1..options.num :
            /\ trace[i].arg = "word_list"
            /\ trace[i].sequence = word_list
            /\ Returned(i)
            /\ \E k \in 1..Len(word_list) : SelectedWord(i) = word_list[k]
            /\ SubSeq(result, SegmentStart(i),
                      SegmentStart(i) + Len(Segment(i)) - 1) = Segment(i)
            /\ IF i < options.num
               THEN SubSeq(result, SegmentStart(i) + Len(Segment(i)),
                           SegmentStart(i + 1) - 1) = options.delimiter
               ELSE Len(result) = SegmentStart(i) + Len(Segment(i)) - 1
        /\ options.num = 0 => result = << >>
        /\ ( /\ options.num = 3
             /\ options.capitalize
             /\ options.delimiter = << "-" >>
             /\ \A i \in 1..3 : SelectedWord(i) = Alpha ) =>
               result = << "A", "l", "p", "h", "a", "-",
                           "A", "l", "p", "h", "a", "-",
                           "A", "l", "p", "h", "a" >>

\* The run of the example returned "Alpha-Alpha-Alpha"
C6_Witness ==
    /\ pc = "done"
    /\ options.specials = 0
    /\ options.num = 3
    /\ word_list[1] = Alpha
    /\ \A i \in 1..3 : trace[i].item = word_list[1]
    /\ result = << "A", "l", "p", "h", "a", "-",
                   "A", "l", "p", "h", "a", "-",
                   "A", "l", "p", "h", "a" >>

(***************************************************************************)
(* C7                                                                      *)
(***************************************************************************)
\* C7: when the configured name is not registered, the run stops with
\* KeyError at the lookup: no source is constructed, choice is never called,
\* no word is chosen and nothing is returned.
C7_UnknownRandomSource ==
    ~ Registered =>
        /\ pc \in { "get_wordlist", "get_random_sources", "raised" }
        /\ pc = "raised" => error = "KeyError"
        /\ pc # "raised" => (error = None /\ ENABLED Next)
        /\ rnd = None
        /\ trace = << >>
        /\ words = << >>
        /\ result = << >>

\* A run whose source is not registered stopped with KeyError, its wordlist
\* read and words asked for
C7_Witness ==
    /\ ~ Registered
    /\ pc = "raised"
    /\ error = "KeyError"
    /\ word_list # << >>
    /\ options.num >= 1
    /\ trace = << >>

(***************************************************************************)
(* C9                                                                      *)
(***************************************************************************)
\* The joined string after the first p passes, by the calls logged: pass p
\* writes the item of call num + 2p - 1 at the index that call num + 2p
\* returned
RECURSIVE Replayed(_)
Replayed(p) ==
    IF p = 0 THEN join(options.delimiter, words)
    ELSE [Replayed(p - 1) EXCEPT
            ![trace[options.num + 2 * p].item + 1] =
                trace[options.num + 2 * p - 1].item]

\* The positions at which the result differs from the joined string
Replaced ==
    { k \in 1..Len(result) : result[k] # join(options.delimiter, words)[k] }

C10_CallOrder ==
    /\ Len(trace) <= options.num + 2 * options.specials
    /\ \A i \in 1..Len(trace) :
          IF i <= options.num
          THEN /\ trace[i].arg = "word_list"
               /\ trace[i].sequence = word_list
          ELSE /\ WordsJoined
               /\ IF (i - options.num) % 2 = 1
                  THEN /\ trace[i].arg = "specials"
                       /\ trace[i].sequence = SPECIAL_CHARS
                       /\ Returned(i)
                       /\ trace[i].item \in Chars(SPECIAL_CHARS)
                  ELSE /\ trace[i].arg = "range"
                       /\ trace[i].sequence = range(Len(result))
                       /\ Returned(i) => trace[i].item \in 0..(Len(result) - 1)
    /\ pc = "done" =>
          /\ Len(trace) = options.num + 2 * options.specials
          /\ \A i \in 1..Len(trace) : Returned(i)
    /\ (pc = "raised" /\ special # None) =>
          /\ result = << >>
          /\ Len(trace) = options.num + 2
          /\ Returned(options.num + 1)
          /\ trace[options.num + 1].item = special
          /\ ~ Returned(options.num + 2)

\* A returned run of words and two passes
C10_Witness ==
    /\ pc = "done"
    /\ options.num >= 2
    /\ options.specials = 2
    /\ Len(trace) = options.num + 4
    /\ trace[options.num + 1].arg = "specials"
    /\ trace[options.num + 2].arg = "range"

(***************************************************************************)
(* C8                                                                      *)
(***************************************************************************)
\* C8: get_wordlist_path returns a path for exactly the strings of two ASCII
\* letters and raises for every other string, and the path returned is that
\* of wordlist_<code lower-cased>.txt.
C8_ExactlyTwoLetters ==
    /\ pc = "done" => IsTwoAsciiLetters(lang)
    /\ pc = "raised" => ~ IsTwoAsciiLetters(lang)
    /\ pc = "done" =>
          path = WORDLISTS_DIR \o << "/" >>
                   \o << "w", "o", "r", "d", "l", "i", "s", "t", "_" >>
                   \o << LowerChar(lang[1]), LowerChar(lang[2]) >>
                   \o << ".", "t", "x", "t" >>

=============================================================================
